---------------------------- MODULE Spec2Model ----------------------------
(***************************************************************************)
(* FP-Lib, fixed-point math for the dsPIC33 family: a model of the         *)
(* library's routines as operations over 16-bit working registers, the     *)
(* 40-bit DSP accumulator and word-addressed data memory.                  *)
(*                                                                         *)
(* Every routine is an inline function.  A call is modelled as one action  *)
(* from pc = "call" to pc = "ret" (or "trap" when the CPU raises a math    *)
(* error trap); the array routine, which runs a hardware DO loop, is       *)
(* modelled instruction by instruction.  Each assembler instruction is an  *)
(* operator named after its mnemonic, each C function an operator named    *)
(* after the function.  Values of 16-bit objects are kept as their         *)
(* unsigned bit patterns 0..65535; S16 gives the signed reading.           *)
(***************************************************************************)
EXTENDS Integers, Sequences, FiniteSets, TLC

VARIABLES
    pc,      \* position of the call: "call", "ret", "trap", or a loop label
    arg,     \* the actual parameters of the call (a record)
    res,     \* the returned value (16-bit pattern, or [high, low] for 32 bit)
    corcon,  \* DSP engine configuration bits the application has set
    mem,     \* data memory words the call may touch (word address -> pattern)
    reg,     \* working registers live across the instructions of a DO loop
    hist     \* history of the call, kept for the properties only

vars == <<pc, arg, res, corcon, mem, reg, hist>>

(***************************************************************************)
(* 16-bit words                                                            *)
(***************************************************************************)
\* Number of patterns of a uint16_t / int16_t object.
Word == 65536

\* Weight of the sign bit of an int16_t object.
Half == 32768

U16(i) == i % Word

S16(u) == IF u >= Half THEN u - Word ELSE u

Abs(i) == IF i < 0 THEN -i ELSE i

\* 2^n for the shift counts used by the library.
RECURSIVE Pow2(_)
Pow2(n) == IF n = 0 THEN 1 ELSE 2 * Pow2(n - 1)

\* lsr Wb, #n, Wd : logical shift right
lsr(u, n) == u \div Pow2(n)

\* sl Wb, #n, Wd : shift left, bits shifted out are lost
sl(u, n) == (u * Pow2(n)) % Word

\* asr Wb, #n, Wd : arithmetic shift right (also C's >> on a negative int)
asr(u, n) == U16(S16(u) \div Pow2(n))

\* add Wb, Ws, Wd : 16-bit addition, carry out is lost
add(a, b) == (a + b) % Word

\* com / C's ~ on a 16-bit pattern
com(u) == (Word - 1) - u

\* Bitwise combination of two 16-bit patterns, bit by bit.
RECURSIVE BitOp(_, _, _, _)
BitOp(f, a, b, n) ==
    IF n = 0 THEN 0
    ELSE (IF f = "and" THEN (IF a % 2 = 1 /\ b % 2 = 1 THEN 1 ELSE 0)
          ELSE (IF a % 2 # b % 2 THEN 1 ELSE 0))
         + 2 * BitOp(f, a \div 2, b \div 2, n - 1)

and(a, b) == BitOp("and", a, b, 16)

xor(a, b) == BitOp("xor", a, b, 16)

\* mul.us Wb, Ws, Wnd : unsigned Wb times signed Ws, 32-bit result in the
\* register pair Wnd (low word) : Wnd+1 (high word).
mul_us(ub, ss) ==
    LET p == ub * S16(ss)
    IN  [low |-> p % Word, high |-> (p \div Word) % Word]

(***************************************************************************)
(* fp_lib_trig.h : sin_Q15                                                 *)
(***************************************************************************)
\* static const _Q15 table[512]: dy[0] y0[0] dy[1] y0[1] ... (values as written)
table ==
<<
    804, 0, 804, 804, 802, 1608, 802, 2410, 799, 3212, 797, 4011, 794, 4808, 791, 5602,
    786, 6393, 783, 7179, 777, 7962, 773, 8739, 766, 9512, 761, 10278, 754, 11039, 746, 11793,
    740, 12539, 731, 13279, 722, 14010, 714, 14732, 705, 15446, 695, 16151, 684, 16846, 674, 17530,
    664, 18204, 651, 18868, 640, 19519, 628, 20159, 616, 20787, 602, 21403, 589, 22005, 576, 22594,
    561, 23170, 548, 23731, 532, 24279, 518, 24811, 503, 25329, 487, 25832, 471, 26319, 455, 26790,
    438, 27245, 422, 27683, 405, 28105, 388, 28510, 370, 28898, 353, 29268, 335, 29621, 317, 29956,
    298, 30273, 281, 30571, 261, 30852, 243, 31113, 224, 31356, 205, 31580, 186, 31785, 166, 31971,
    148, 32137, 127, 32285, 109, 32412, 88, 32521, 69, 32609, 50, 32678, 29, 32728, 10, 32757,
    -10, 32767, -29, 32757, -50, 32728, -69, 32678, -88, 32609, -109, 32521, -127, 32412, -148, 32285,
    -166, 32137, -186, 31971, -205, 31785, -224, 31580, -243, 31356, -261, 31113, -281, 30852, -298, 30571,
    -317, 30273, -335, 29956, -353, 29621, -370, 29268, -388, 28898, -405, 28510, -422, 28105, -438, 27683,
    -455, 27245, -471, 26790, -487, 26319, -503, 25832, -518, 25329, -532, 24811, -548, 24279, -561, 23731,
    -576, 23170, -589, 22594, -602, 22005, -616, 21403, -628, 20787, -640, 20159, -651, 19519, -664, 18868,
    -674, 18204, -684, 17530, -695, 16846, -705, 16151, -714, 15446, -722, 14732, -731, 14010, -740, 13279,
    -746, 12539, -754, 11793, -761, 11039, -766, 10278, -773, 9512, -777, 8739, -783, 7962, -786, 7179,
    -791, 6393, -794, 5602, -797, 4808, -799, 4011, -802, 3212, -802, 2410, -804, 1608, -804, 804,
    -804, 0, -804, -804, -802, -1608, -802, -2410, -799, -3212, -797, -4011, -794, -4808, -791, -5602,
    -786, -6393, -783, -7179, -777, -7962, -773, -8739, -766, -9512, -761, -10278, -754, -11039, -746, -11793,
    -740, -12539, -731, -13279, -722, -14010, -714, -14732, -705, -15446, -695, -16151, -684, -16846, -674, -17530,
    -664, -18204, -651, -18868, -640, -19519, -628, -20159, -616, -20787, -602, -21403, -589, -22005, -576, -22594,
    -561, -23170, -548, -23731, -532, -24279, -518, -24811, -503, -25329, -487, -25832, -471, -26319, -455, -26790,
    -438, -27245, -422, -27683, -405, -28105, -388, -28510, -370, -28898, -353, -29268, -335, -29621, -317, -29956,
    -298, -30273, -281, -30571, -261, -30852, -243, -31113, -224, -31356, -205, -31580, -186, -31785, -166, -31971,
    -148, -32137, -127, -32285, -109, -32412, -88, -32521, -69, -32609, -50, -32678, -29, -32728, -10, -32757,
    10, -32767, 29, -32757, 50, -32728, 69, -32678, 88, -32609, 109, -32521, 127, -32412, 148, -32285,
    166, -32137, 186, -31971, 205, -31785, 224, -31580, 243, -31356, 261, -31113, 281, -30852, 298, -30571,
    317, -30273, 335, -29956, 353, -29621, 370, -29268, 388, -28898, 405, -28510, 422, -28105, 438, -27683,
    455, -27245, 471, -26790, 487, -26319, 503, -25832, 518, -25329, 532, -24811, 548, -24279, 561, -23731,
    576, -23170, 589, -22594, 602, -22005, 616, -21403, 628, -20787, 640, -20159, 651, -19519, 664, -18868,
    674, -18204, 684, -17530, 695, -16846, 705, -16151, 714, -15446, 722, -14732, 731, -14010, 740, -13279,
    746, -12539, 754, -11793, 761, -11039, 766, -10278, 773, -9512, 777, -8739, 783, -7962, 786, -7179,
    791, -6393, 794, -5602, 797, -4808, 799, -4011, 802, -3212, 802, -2410, 804, -1608, 804, -804
>>

\* Word read from the table at a byte offset from its start.
TableWord(byteOff) == U16(table[(byteOff \div 2) + 1])

sin_Q15_swapped(x) ==
    LET y1     == lsr(x, 8)
        y2     == sl(y1, 2)
        xf     == sl(x, 8)
        prod   == mul_us(xf, TableWord(y2 + 2))
    IN  add(prod.high, TableWord(y2))

sin_Q15(x) ==
    LET y1     == lsr(x, 8)                      \* lsr x, #8, y
        y2     == sl(y1, 2)                      \* sl y, #2, y
        yTable == y2                             \* add yTable, y, yTable
        xf     == sl(x, 8)                       \* sl x, #8, x
        prod   == mul_us(xf, TableWord(yTable))  \* mul.us x, [yTable++], y
        w3     == prod.high                      \* y is W2, the product W2:W3
    IN  add(w3, TableWord(yTable + 2))           \* add w3, [yTable], y

\* Configuration of a call that uses neither the DSP engine nor memory.
NoCorcon == [RND |-> 0, SATDW |-> 1]
NoMem == <<>>
NoReg == [w0 |-> 0, w1 |-> 0]
NoHist == [iters |-> 0, reads |-> <<>>, writes |-> <<>>]

InitSin ==
    /\ pc = "call"
    /\ arg \in [x : 0 .. Word - 1]
    /\ res = 0
    /\ corcon = NoCorcon
    /\ mem = NoMem
    /\ reg = NoReg
    /\ hist = NoHist

Call_sin_Q15 ==
    /\ pc = "call"
    /\ pc' = "ret"
    /\ res' = sin_Q15(arg.x)
    /\ UNCHANGED <<arg, corcon, mem, reg, hist>>

NextSin == Call_sin_Q15

SpecSin == InitSin /\ [][NextSin]_vars

\* C1: sin_Q15(0) = 0, sin_Q15(0x4000) is within 1 LSB of 0x7FFF and
\* sin_Q15(0x8000) (phase -1, i.e. -pi) is within 1 LSB of 0.
C1_SinKeyPhases ==
    pc = "ret" =>
        /\ (arg.x = 0 => res = 0)
        /\ (arg.x = 16384 => Abs(S16(res) - 32767) <= 1)
        /\ (arg.x = 32768 => Abs(S16(res)) <= 1)

C1_Witness == pc = "ret" /\ arg.x = 16384 /\ res = 32767

(***************************************************************************)
(* Inputs of the two-operand routines                                      *)
(***************************************************************************)
\* Half-width of the window of 16-bit patterns taken around each anchor.
EdgeW == 2

\* 16-bit patterns around 0x0000, 0x4000, 0x8000, 0xC000 and up to 0xFFFF.
Sample16 ==
    { v \in UNION { { k * 16384 + d : d \in (0 - EdgeW) .. EdgeW } : k \in 0 .. 4 } :
        v >= 0 /\ v < Word }

(***************************************************************************)
(* fp_lib_div.h : div_Q16_Q16                                              *)
(***************************************************************************)
\* repeat #0x11 / div.u Wm, Wn : unsigned 16/16 divide, quotient in W0 and
\* remainder in W1.  A zero divisor raises the math error trap.
div_u(wm, wn) ==
    IF wn = 0 THEN [trap |-> TRUE, w0 |-> 0, w1 |-> 0]
    ELSE [trap |-> FALSE, w0 |-> wm \div wn, w1 |-> wm % wn]

\* repeat #0x11 / divf Wm, Wn : signed fractional divide, W0 = Wm / Wn in
\* Q0.15.  A zero divisor raises the math error trap.  The quotient is only
\* defined for |Wm| < |Wn|; otherwise the OV flag is set and W0 is
\* unspecified, here any of the sampled patterns.
divf(wm, wn) ==
    IF wn = 0 THEN { [trap |-> TRUE, w0 |-> 0] }
    ELSE IF Abs(S16(wm)) >= Abs(S16(wn))
         THEN { [trap |-> FALSE, w0 |-> q] : q \in Sample16 }
         ELSE LET n == Abs(S16(wm)) * Half
                  d == Abs(S16(wn))
                  neg == (S16(wm) < 0) # (S16(wn) < 0)
              IN  { [trap |-> FALSE,
                     w0 |-> U16(IF neg THEN 0 - (n \div d) ELSE n \div d)] }

\* The outcomes of div_Q16_Q16(num, den): a trap, or the Q16.16 result as
\* its high (integer) and low (fractional) words.
div_Q16_Q16(num, den) ==
    LET s1   == div_u(num, den)                  \* repeat #0x11; div.u num, den
        high == s1.w0                            \* mov w0, %d[res]
        w1   == lsr(s1.w1, 1)                    \* lsr w1, #1, w1
        den1 == lsr(den, 1)                      \* lsr den, #1, den
    IN  IF s1.trap
        THEN { [trap |-> TRUE, high |-> 0, low |-> 0] }
        ELSE { [trap |-> s2.trap,                \* repeat #0x11; divf w1, den
                high |-> high,
                low  |-> sl(s2.w0, 1)]           \* sl w0, #1, res
               : s2 \in divf(w1, den1) }

InitDiv ==
    /\ pc = "call"
    /\ arg \in [num : Sample16, den : Sample16]
    /\ res = [high |-> 0, low |-> 0]
    /\ corcon = NoCorcon
    /\ mem = NoMem
    /\ reg = NoReg
    /\ hist = NoHist

Call_div_Q16_Q16 ==
    /\ pc = "call"
    /\ \E o \in div_Q16_Q16(arg.num, arg.den) :
          /\ pc' = IF o.trap THEN "trap" ELSE "ret"
          /\ res' = [high |-> o.high, low |-> o.low]
    /\ UNCHANGED <<arg, corcon, mem, reg, hist>>

NextDiv == Call_div_Q16_Q16

SpecDiv == InitDiv /\ [][NextDiv]_vars

\* floor(num * 2^16 / den) as its high and low words, by long division.
ExactQuot(num, den) ==
    LET r  == num % den
        q1 == (r * 256) \div den
        r1 == (r * 256) % den
        q2 == (r1 * 256) \div den
    IN  [high |-> num \div den, low |-> q1 * 256 + q2]

\* C2: for every num and every den # 0, div_Q16_Q16(num, den) returns a
\* value that never exceeds num * 2^16 / den and falls short of it by less
\* than 2 units of the last place.
C2_DivTruncationOnly ==
    (pc = "ret" /\ arg.den # 0) =>
        LET e == ExactQuot(arg.num, arg.den)
        IN  \/ (res.high = e.high /\ e.low - res.low \in {0, 1})
            \/ (res.high + 1 = e.high /\ e.low = 0 /\ res.low = Word - 1)

\* C3: for every non-zero x, div_Q16_Q16(x, x) returns exactly 0x00010000:
\* integer part 1, and a well-defined second stage with fractional part 0.
C3_DivIdentity ==
    (pc # "call" /\ arg.den # 0 /\ arg.num = arg.den) =>
        (pc = "ret" /\ res = [high |-> 1, low |-> 0])

(***************************************************************************)
(* fp_lib_abs.h : abs_Q15                                                  *)
(***************************************************************************)
\* cpsne Wb, Wn followed by mov #lit16, Wb : the mov is skipped unless the
\* two registers are equal.
cpsne_mov(val, mask, lit) == IF val = mask THEN lit ELSE val

abs_Q15_plain(a) ==
    LET mask1 == asr(a, 15)
        val2  == add(mask1, a)
    IN  xor(mask1, val2)

abs_Q15(a) ==
    LET mask0 == 32768                           \* _Q15 mask = 0x8000
        val1  == cpsne_mov(a, mask0, 32767)      \* cpsne val, mask; mov #0x7FFF, val
        mask1 == asr(val1, 15)                   \* asr val, #15, mask
        val2  == add(mask1, val1)                \* add mask, val, val
    IN  xor(mask1, val2)                         \* xor mask, val, val

InitAbs ==
    /\ pc = "call"
    /\ arg \in [a : 0 .. Word - 1]
    /\ res = 0
    /\ corcon = NoCorcon
    /\ mem = NoMem
    /\ reg = NoReg
    /\ hist = NoHist

Call_abs_Q15 ==
    /\ pc = "call"
    /\ pc' = "ret"
    /\ res' = abs_Q15(arg.a)
    /\ UNCHANGED <<arg, corcon, mem, reg, hist>>

NextAbs == Call_abs_Q15

SpecAbs == InitAbs /\ [][NextAbs]_vars

\* C4: abs_Q15(arg) is 0x7FFF for arg = 0x8000 and the two's-complement
\* absolute value otherwise; the result is always in [0, 0x7FFF].
C4_AbsModified ==
    pc = "ret" =>
        /\ res = (IF arg.a = 32768 THEN 32767 ELSE Abs(S16(arg.a)))
        /\ res >= 0 /\ res <= 32767

C4_Witness == pc = "ret" /\ arg.a = 32768 /\ res = 32767

(***************************************************************************)
(* fp_lib_typeconv.h : conversions                                         *)
(***************************************************************************)
convert_Q15_Q16_Naive_shiftonly(a) == sl(a, 1)

\* (arg << 1) + (arg >> 14) in 16-bit int arithmetic, stored to a _Q16.
convert_Q15_Q16_Naive(a) == add(sl(a, 1), asr(a, 14))

convert_Q15_Q16_nosat(a) == convert_Q15_Q16_Naive(a)

convert_Q15_Q16(a) ==
    LET res0 == convert_Q15_Q16_Naive(a)         \* _Q16 res = convert_Q15_Q16_Naive(arg)
        sat  == com(asr(a, 15))                  \* const _Q16 sat = ~(arg >> 15)
    IN  and(res0, sat)                           \* res &= sat

convert_Q16_Q15_shift2(a) == lsr(a, 2)

\* return arg >> 1 on a _Q16
convert_Q16_Q15(a) == lsr(a, 1)

\* mul.uu arg, #1, res : zero-extension to 32 bit
convert_Q16_Q1516(a) == [high |-> 0, low |-> a]

convert_Q1516_Q16_nopos(v) ==
    IF v.high = 0 THEN v.low ELSE 0

\* The argument is the Long union: .high (int16_t) and .low (uint16_t).
convert_Q1516_Q16(v) ==
    IF v.high = 0                                \* if (((Long) arg).high == 0)
    THEN v.low                                   \* res = ((Long) arg).low
    ELSE com(asr(v.high, 15))                    \* res = ~(((Long) arg).high >> 15)

InitConv ==
    /\ pc = "call"
    /\ arg \in [a : 0 .. Word - 1]
    /\ res = 0
    /\ corcon = NoCorcon
    /\ mem = NoMem
    /\ reg = NoReg
    /\ hist = NoHist

Call_convert_Q15_Q16 ==
    /\ pc = "call"
    /\ pc' = "ret"
    /\ res' = convert_Q15_Q16(arg.a)
    /\ UNCHANGED <<arg, corcon, mem, reg, hist>>

NextConv == Call_convert_Q15_Q16

SpecConv == InitConv /\ [][NextConv]_vars

\* C5: convert_Q15_Q16(x) is exactly 0 for negative x (0x8000..0xFFFF) and
\* equals convert_Q15_Q16_Naive(x) for non-negative x (0..0x7FFF).
C5_ConvSaturating ==
    pc = "ret" =>
        res = (IF arg.a >= Half THEN 0 ELSE convert_Q15_Q16_Naive(arg.a))

C5_Witness == pc = "ret" /\ arg.a = 49152 /\ res = 0

\* Patterns of the high word around 0x0000, 0x4000, 0x8000, 0xC000, 0xFFFF
\* paired with the same patterns of the low word.
InitConv1516 ==
    /\ pc = "call"
    /\ arg \in [v : [high : Sample16, low : Sample16]]
    /\ res = 0
    /\ corcon = NoCorcon
    /\ mem = NoMem
    /\ reg = NoReg
    /\ hist = NoHist

Call_convert_Q1516_Q16 ==
    /\ pc = "call"
    /\ pc' = "ret"
    /\ res' = convert_Q1516_Q16(arg.v)
    /\ UNCHANGED <<arg, corcon, mem, reg, hist>>

NextConv1516 == Call_convert_Q1516_Q16

SpecConv1516 == InitConv1516 /\ [][NextConv1516]_vars

\* Numeric value of a Q15.16 pattern, in units of 2^-16.
ValQ1516(v) == S16(v.high) * Word + v.low

Min(a, b) == IF a < b THEN a ELSE b

Max(a, b) == IF a > b THEN a ELSE b

\* C6: convert_Q1516_Q16(v) clamps v to the Q0.16 range: the result is
\* min(max(v, 0), 0xFFFF), e.g. 0x00010000 -> 0xFFFF and 0xFFFF0000 -> 0.
C6_ConvClamp ==
    pc = "ret" => res = Min(Max(ValQ1516(arg.v), 0), Word - 1)

C6_Witness == pc = "ret" /\ arg.v = [high |-> 1, low |-> 0] /\ res = Word - 1

(***************************************************************************)
(* fp_lib_mul.h : scalar multiplications                                   *)
(***************************************************************************)
\* 16-bit patterns around every multiple of 0x1000.
Sample16Fine ==
    { v \in UNION { { k * 4096 + d : d \in (0 - EdgeW) .. EdgeW } : k \in 0 .. 16 } :
        v >= 0 /\ v < Word }

\* __builtin_mulss(a, b) : signed 16x16 -> 32 product, as an integer.
mulss(a, b) == S16(a) * S16(b)

\* __builtin_mulsu(a, b) : signed a times unsigned b, as an integer.
mulsu(a, b) == S16(a) * b

\* A 32-bit product p held in the Long union after "<< 1": bit 31 of the
\* shifted value is bit 30 of p, so the halves are those of 2p modulo 2^32.
LongShl1(p) == [high |-> (p \div Half) % Word, low |-> (p % Half) * 2]

\* A 32-bit product p held in the Long union.
LongOf(p) == [high |-> (p \div Word) % Word, low |-> p % Word]

mul_Q15_Q15_noshift(a1, a2) == LongOf(mulss(a1, a2)).high

mul_Q15_Q15(a1, a2) ==
    LET r == LongShl1(mulss(a1, a2))             \* {.value = __builtin_mulss(arg1, arg2) << 1}
    IN  r.high                                   \* return res.high

mul_Q15_Q16(a1, a2) ==
    LET r == LongOf(mulsu(a1, a2))               \* {.value = __builtin_mulsu(arg1, arg2)}
    IN  r.high                                   \* return res.high

InitMul ==
    /\ pc = "call"
    /\ arg \in [a1 : Sample16Fine, a2 : Sample16Fine]
    /\ res = 0
    /\ corcon = NoCorcon
    /\ mem = NoMem
    /\ reg = NoReg
    /\ hist = NoHist

Call_mul_Q15_Q15 ==
    /\ pc = "call"
    /\ pc' = "ret"
    /\ res' = mul_Q15_Q15(arg.a1, arg.a2)
    /\ UNCHANGED <<arg, corcon, mem, reg, hist>>

NextMul == Call_mul_Q15_Q15

SpecMul == InitMul /\ [][NextMul]_vars

\* |r - a*b / 2^15| <= 1 for the signed readings, without fractions: with
\* a*b = q * 2^15 + m, 0 <= m < 2^15, r is q or q + 1, or q - 1 when m = 0.
WithinOneLsbOfProduct(r, a, b) ==
    LET p == S16(a) * S16(b)
        q == p \div Half
        m == p % Half
    IN  \/ S16(r) - q \in {0, 1}
        \/ (m = 0 /\ S16(r) - q = 0 - 1)

\* C7 (as stated): for every pair a, b, mul_Q15_Q15(a, b) is within 1 LSB
\* of the exact product a*b / 2^15 in Q0.15.
C7_MulWithinOneLsb_AllPairs ==
    pc = "ret" => WithinOneLsbOfProduct(res, arg.a1, arg.a2)

\* C7 (amended): for every pair a, b other than a = b = 0x8000 (-1.0 times
\* -1.0, whose product +1.0 has no Q0.15 pattern and comes out as 0x8000),
\* mul_Q15_Q15(a, b) is within 1 LSB of a*b / 2^15; it is in fact
\* floor(a*b / 2^15).
C7_MulWithinOneLsb ==
    (pc = "ret" /\ ~(arg.a1 = Half /\ arg.a2 = Half)) =>
        /\ WithinOneLsbOfProduct(res, arg.a1, arg.a2)
        /\ S16(res) = (S16(arg.a1) * S16(arg.a2)) \div Half

C7_Witness == pc = "ret" /\ arg.a1 = 16384 /\ arg.a2 = 16384 /\ res = 8192

(***************************************************************************)
(* DSP engine: accumulator A as an integer in units of 2^-31 (bit 0 of the *)
(* 40-bit accumulator has weight 1).  The engine runs in its reset mode:   *)
(* signed, fractional multiplies; accumulator saturation off.              *)
(***************************************************************************)
\* lac Ws, #shift, A : Ws sign-extended into bits 39..16, then shifted
\* right arithmetically by shift.
lac(ws, shift) == (S16(ws) * Word) \div Pow2(shift)

\* Fractional signed product of two 16-bit registers: (a * b) << 1.
mpy(a, b) == 2 * (S16(a) * S16(b))

\* msc Wm * Wn, A : A - Wm * Wn
msc(acc, a, b) == acc - mpy(a, b)

\* mac Wm * Wn, A : A + Wm * Wn
mac(acc, a, b) == acc + mpy(a, b)

\* sac.r A, #shift, Wd : A shifted (a negative shift is to the left),
\* rounded at bit 16 and its bits 31..16 stored.  CORCON.RND selects
\* conventional rounding (1: a low word of 0x8000 rounds up) or convergent
\* rounding (0: it rounds to the even neighbour); with CORCON.SATDW the
\* stored word saturates instead of wrapping.
sac_r(acc, shift, cc) ==
    LET v    == IF shift < 0 THEN acc * Pow2(0 - shift) ELSE acc \div Pow2(shift)
        hi   == v \div Word
        lo   == v % Word
        up   == \/ lo > Half
                \/ (lo = Half /\ (cc.RND = 1 \/ hi % 2 = 1))
        r    == IF up THEN hi + 1 ELSE hi
    IN  IF cc.SATDW = 1
        THEN U16(Max(Min(r, Half - 1), 0 - Half))
        ELSE U16(r)

\* The settings of CORCON.RND and CORCON.SATDW an application may run with.
Corcons == [RND : {0, 1}, SATDW : {0, 1}]

(***************************************************************************)
(* fp_lib_interp.h : interpLinear                                          *)
(***************************************************************************)
interpLinear_shift2(y1, y2, x, cc) ==
    LET xs == lsr(x, 2)
        a0 == lac(y1, 0)
        a1 == msc(a0, y1, xs)
        a2 == mac(a1, y2, xs)
    IN  sac_r(a2, 0, cc)

interpLinear(y1, y2, x, cc) ==
    LET xs == lsr(x, 1)                          \* [x] "z"(x >> 1)
        a0 == lac(y1, 0)                         \* lac y1, #0, A
        a1 == msc(a0, y1, xs)                    \* msc y1 * x, A
        a2 == mac(a1, y2, xs)                    \* mac y2 * x, A
    IN  sac_r(a2, 0, cc)                         \* sac.r A, #0, y

InitInterp ==
    /\ pc = "call"
    /\ arg \in [y1 : Sample16, y2 : Sample16, x : Sample16]
    /\ res = 0
    /\ corcon \in Corcons
    /\ mem = NoMem
    /\ reg = NoReg
    /\ hist = NoHist

Call_interpLinear ==
    /\ pc = "call"
    /\ pc' = "ret"
    /\ res' = interpLinear(arg.y1, arg.y2, arg.x, corcon)
    /\ UNCHANGED <<arg, corcon, mem, reg, hist>>

NextInterp == Call_interpLinear

SpecInterp == InitInterp /\ [][NextInterp]_vars

\* C8 (as stated): for every y1, y2, interpLinear(y1, y2, 0xFFFF) differs
\* from y2 by at most 1 LSB.
C8_InterpEnd_OneLsb ==
    (pc = "ret" /\ arg.x = Word - 1) => Abs(S16(res) - S16(arg.y2)) <= 1

\* C8 (amended): for every y1, y2, interpLinear(y1, y2, 0xFFFF) differs
\* from y2 by at most 2 LSB, and by at most 1 LSB when |y1 - y2| < 0xC000;
\* it is y2 plus (y1 - y2) / 2^15 rounded to nearest, since x >> 1 = 0x7FFF
\* leaves y1 a weight of 2^-15.
C8_InterpEnd ==
    (pc = "ret" /\ arg.x = Word - 1) =>
        LET d == S16(arg.y1) - S16(arg.y2)
            e == S16(res) - S16(arg.y2)
        IN  /\ Abs(e) <= 2
            /\ (Abs(d) < 49152 => Abs(e) <= 1)
            /\ Abs(e * Half - d) * 2 <= Half

C8_Witness ==
    /\ pc = "ret" /\ arg.x = Word - 1
    /\ arg.y1 = 32767 /\ arg.y2 = 32768
    /\ S16(res) = S16(arg.y2) + 2

(***************************************************************************)
(* fp_lib_interp.h : interpLUT_256_Q15                                     *)
(***************************************************************************)
\* 16-bit patterns around 0x0000, 0x8000 and up to 0xFFFF.
Sample16Coarse ==
    { v \in UNION { { k * 32768 + d : d \in (0 - EdgeW) .. EdgeW } : k \in 0 .. 2 } :
        v >= 0 /\ v < Word }

\* 8-bit values around 0, 128 and up to 255: table indices, fractions.
Sample8 ==
    { v \in UNION { { k * 128 + d : d \in (0 - EdgeW) .. EdgeW } : k \in 0 .. 2 } :
        v >= 0 /\ v < 256 }

\* Number of entries of the lookup table: 256 + 1.
LutLen == 257

\* A table whose entries k and k + 1 are l and r; every other entry holds a
\* pattern of its own.
LutTable(k, l, r) ==
    [ j \in 0 .. LutLen - 1 |->
        IF j = k THEN l ELSE IF j = k + 1 THEN r ELSE (j * 251 + 77) % Word ]

\* Word of data memory at a byte address.
MemWord(m, byteAddr) == m[byteAddr \div 2]

interpLUT_256_Q15_reads_noinc(yTable, x) ==
    LET p0 == add(yTable, add(lsr(x, 8), lsr(x, 8)))
    IN  <<p0, p0>>

\* Byte addresses of the two table reads: [yTable]+=2 and [yTable].
interpLUT_256_Q15_reads(yTable, x) ==
    LET y0 == lsr(x, 8)                          \* lsr x, #8, y
        y1 == add(y0, y0)                        \* add y, y, y
        p0 == add(yTable, y1)                    \* add yTable, y, yTable
    IN  <<p0, add(p0, 2)>>

interpLUT_256_Q15_prescale8(m, yTable, x, cc) ==
    LET p  == interpLUT_256_Q15_reads(yTable, x)
        xf == and(x, 255)
        yl == MemWord(m, p[1])
        a0 == lac(yl, 8)
        yr == MemWord(m, p[2])
        a1 == msc(a0, yl, xf)
        a2 == mac(a1, yr, xf)
    IN  sac_r(a2, 0 - 7, cc)

interpLUT_256_Q15(m, yTable, x, cc) ==
    LET p  == interpLUT_256_Q15_reads(yTable, x)
        xf == and(x, 255)                        \* and #0xff, x
        yl == MemWord(m, p[1])                   \* movsac A, [yTable]+=2, y
        a0 == lac(yl, 7)                         \* lac y, #7, A
        yr == MemWord(m, p[2])                   \* msc y * x, A, [yTable], y
        a1 == msc(a0, yl, xf)
        a2 == mac(a1, yr, xf)                    \* mac y * x, A
    IN  sac_r(a2, 0 - 7, cc)                     \* sac.r A, #-7, y

\* The table lies at byte address 0 of the modelled memory.
InitLUT ==
    /\ pc = "call"
    /\ \E k \in Sample8, f \in Sample8, l \in Sample16Coarse, r \in Sample16Coarse :
          /\ arg = [yTable |-> 0, x |-> k * 256 + f]
          /\ mem = LutTable(k, l, r)
    /\ res = 0
    /\ corcon \in Corcons
    /\ reg = NoReg
    /\ hist = NoHist

Call_interpLUT_256_Q15 ==
    /\ pc = "call"
    /\ pc' = "ret"
    /\ res' = interpLUT_256_Q15(mem, arg.yTable, arg.x, corcon)
    /\ hist' = [hist EXCEPT !.reads =
                   [ i \in 1 .. 2 |-> interpLUT_256_Q15_reads(arg.yTable, arg.x)[i] \div 2 ]]
    /\ UNCHANGED <<arg, corcon, mem, reg>>

NextLUT == Call_interpLUT_256_Q15

SpecLUT == InitLUT /\ [][NextLUT]_vars

\* C9: for every table and every x = 256 * k, interpLUT_256_Q15(table, x)
\* returns exactly table[k], whatever table[k + 1] is (x = 0 gives table[0],
\* x = 0x8000 gives table[128]).
C9_LutAtNodes ==
    (pc = "ret" /\ arg.x % 256 = 0) => res = mem[arg.x \div 256]

C9_Witness ==
    /\ pc = "ret" /\ arg.x = 32768
    /\ res = mem[128] /\ mem[129] # mem[128]

(***************************************************************************)
(* fp_lib_mul.h : mul_aQ15_Q16, a hardware DO loop of two instructions     *)
(***************************************************************************)
\* Largest array length tried.
MaxLen == 3

\* Words of modelled data memory: room for two arrays and a word after each.
MemWords == 2 * MaxLen + 2

\* Initial contents of memory: every word its own pattern.
MemPattern(seed) == [ a \in 0 .. MemWords - 1 |-> (seed + a * 4099) % Word ]

DoCount_len(len) == U16(len)

\* The loop count operand: [len] "r"(len - 1).  The loop body runs
\* DCOUNT + 1 times.
DoCount(len) == U16(len - 1)

\* src and dst are byte addresses of arrays of at most MaxLen words that lie
\* inside the modelled memory; they may overlap in any way.
InitAMul ==
    /\ pc = "call"
    /\ \E n \in 1 .. MaxLen, v \in Sample16Coarse :
          \E s \in 0 .. MemWords - n - 1, d \in 0 .. MemWords - n - 1 :
              arg = [src |-> 2 * s, val |-> v, dst |-> 2 * d, len |-> n]
    /\ \E seed \in Sample16Coarse :
          /\ mem = MemPattern(seed)
          /\ hist = [iters |-> 0, reads |-> <<>>, writes |-> <<>>, mem0 |-> MemPattern(seed)]
    /\ res = 0
    /\ corcon = NoCorcon
    /\ reg = [w0 |-> 0, w1 |-> 0, src |-> 0, dst |-> 0, dcount |-> 0]

\* do len, mul_aQ15_Q16_end : load DCOUNT, enter the loop
Do_mul_aQ15_Q16 ==
    /\ pc = "call"
    /\ pc' = "mul"
    /\ reg' = [reg EXCEPT !.src = arg.src, !.dst = arg.dst,
                          !.dcount = DoCount(arg.len)]
    /\ UNCHANGED <<arg, res, corcon, mem, hist>>

\* mul.us val, [src++], w0 : product in w1:w0
Mul_mul_aQ15_Q16 ==
    /\ pc = "mul"
    /\ pc' = "mov"
    /\ LET p == mul_us(arg.val, MemWord(mem, reg.src))
       IN  reg' = [reg EXCEPT !.w0 = p.low, !.w1 = p.high,
                              !.src = add(reg.src, 2)]
    /\ hist' = [hist EXCEPT !.reads = Append(@, reg.src \div 2)]
    /\ UNCHANGED <<arg, res, corcon, mem>>

\* mov w1, [dst++] : last instruction of the loop; the loop is left when
\* DCOUNT is 0, else DCOUNT is decremented and the loop starts over.
Mov_mul_aQ15_Q16 ==
    /\ pc = "mov"
    /\ mem' = [mem EXCEPT ![reg.dst \div 2] = reg.w1]
    /\ hist' = [hist EXCEPT !.writes = Append(@, reg.dst \div 2),
                            !.iters = @ + 1]
    /\ IF reg.dcount = 0
       THEN /\ pc' = "ret"
            /\ reg' = [reg EXCEPT !.dst = add(reg.dst, 2)]
       ELSE /\ pc' = "mul"
            /\ reg' = [reg EXCEPT !.dst = add(reg.dst, 2), !.dcount = @ - 1]
    /\ UNCHANGED <<arg, res, corcon>>

NextAMul == Do_mul_aQ15_Q16 \/ Mul_mul_aQ15_Q16 \/ Mov_mul_aQ15_Q16

SpecAMul == InitAMul /\ [][NextAMul]_vars

\* C10: for every len >= 1, mul_aQ15_Q16(src, val, dst, len) ends after
\* exactly len loop iterations (before that it can always take a step),
\* having read src[0..len-1] in order and written dst[0..len-1] in order;
\* no word outside dst[0..len-1] is changed, and when dst is src or the two
\* arrays are disjoint, dst[i] is mul_Q15_Q16(src[i], val) for the initial
\* src[i], for every i in 0..len-1.
C10_ArrayMul ==
    LET n  == arg.len
        s  == arg.src \div 2
        d  == arg.dst \div 2
        m0 == hist.mem0
    IN  /\ pc # "ret" => (hist.iters < n /\ ENABLED NextAMul)
        /\ pc = "ret" =>
            /\ hist.iters = n
            /\ hist.reads = [ i \in 1 .. n |-> s + i - 1 ]
            /\ hist.writes = [ i \in 1 .. n |-> d + i - 1 ]
            /\ \A a \in DOMAIN mem : (a < d \/ a >= d + n) => mem[a] = m0[a]
            /\ (d = s \/ d + n <= s \/ s + n <= d) =>
                  \A i \in 0 .. n - 1 : mem[d + i] = mul_Q15_Q16(m0[s + i], arg.val)

C10_Witness ==
    /\ pc = "ret" /\ arg.len = 3 /\ arg.dst = arg.src
    /\ hist.iters = 3
    /\ \A i \in 0 .. 2 : mem[arg.dst \div 2 + i] # hist.mem0[arg.dst \div 2 + i]

(***************************************************************************)
(* fp_lib_mul.h : multiplications of Q16.16 numbers.  A 32-bit value is    *)
(* the ULong union: [high, low] words.                                     *)
(***************************************************************************)
\* __builtin_muluu(a, b) : unsigned 16x16 -> 32 product as its two words,
\* formed from the two byte halves of a.
muluu(a, b) ==
    LET t   == (a % 256) * b
        u   == (a \div 256) * b
        mid == (u % 256) * 256 + t
    IN  [high |-> (u \div 256) + (mid \div Word), low |-> mid % Word]

\* mulw.uu Wb, Ws, Wnd : the low 16 bits of the unsigned product only.
mulw_uu(a, b) == muluu(a, b).low

\* 32-bit addition on two-word values, the carry out of bit 31 is lost.
Add32(x, y) ==
    LET lo == x.low + y.low
    IN  [high |-> (x.high + y.high + lo \div Word) % Word, low |-> lo % Word]

mul_Q1616_Q16_nolow(a1, a2) == muluu(a1.high, a2)

mul_Q1616_Q16(a1, a2) ==
    LET r0   == muluu(a1.high, a2)               \* _Q1616 res = __builtin_muluu(arg1.high, arg2)
        temp == muluu(a1.low, a2)                \* _Q32 temp = __builtin_muluu(arg1.low, arg2)
    IN  Add32(r0, [high |-> 0, low |-> temp.high])   \* res += ((ULong) temp).high

mul_Q1616_UINT(a1, a2) ==
    LET r0 == muluu(a1.low, a2)                  \* _Q1616 res = __builtin_muluu(arg1.low, arg2)
        w0 == mulw_uu(a1.high, a2)               \* mulw.uu %d[arg1], arg2, w0
    IN  [high |-> add(w0, r0.high), low |-> r0.low]  \* add w0, %d[res], %d[res]

mul_Q1616_Q1616(a1, a2) ==
    Add32(mul_Q1616_UINT(a1, a2.high), mul_Q1616_Q16(a1, a2.low))

InitMul1616 ==
    /\ pc = "call"
    /\ arg \in [a1 : [high : Sample16Coarse, low : Sample16Coarse],
                a2 : [high : Sample16Coarse, low : Sample16Coarse]]
    /\ res = [high |-> 0, low |-> 0]
    /\ corcon = NoCorcon
    /\ mem = NoMem
    /\ reg = NoReg
    /\ hist = NoHist

Call_mul_Q1616_Q1616 ==
    /\ pc = "call"
    /\ pc' = "ret"
    /\ res' = mul_Q1616_Q1616(arg.a1, arg.a2)
    /\ UNCHANGED <<arg, corcon, mem, reg, hist>>

NextMul1616 == Call_mul_Q1616_Q1616

SpecMul1616 == InitMul1616 /\ [][NextMul1616]_vars

\* The four bytes of a two-word value, least significant first.
Bytes(v) == <<v.low % 256, v.low \div 256, v.high % 256, v.high \div 256>>

\* Column k (0..7) of the long multiplication of two 4-byte numbers.
Column(x, y, k) ==
    LET ij == { p \in (1 .. 4) \X (1 .. 4) : (p[1] - 1) + (p[2] - 1) = k }
        RECURSIVE Sum(_)
        Sum(S) == IF S = {} THEN 0
                  ELSE LET p == CHOOSE q \in S : TRUE
                       IN  x[p[1]] * y[p[2]] + Sum(S \ {p})
    IN  Sum(ij)

\* Byte k of the 64-bit product and the carry into byte k + 1.
RECURSIVE ProductByte(_, _, _)
ProductByte(x, y, k) ==
    LET cin == IF k = 0 THEN 0 ELSE ProductByte(x, y, k - 1).carry
        t   == Column(x, y, k) + cin
    IN  [byte |-> t % 256, carry |-> t \div 256]

\* floor(a * b / 2^16) modulo 2^32: bytes 2..5 of the 64-bit product.  The
\* bytes above them (6, 7) are the part of the integer beyond 65535.
ExactProductQ1616(a, b) ==
    LET x == Bytes(a)
        y == Bytes(b)
        B(k) == ProductByte(x, y, k).byte
    IN  [value |-> [high |-> B(5) * 256 + B(4), low |-> B(3) * 256 + B(2)],
         over  |-> B(7) * 256 + B(6)]

\* C11: for every pair of Q16.16 inputs a and b, mul_Q1616_Q1616(a, b)
\* equals floor(a * b / 2^16) reduced modulo 2^32: the exactly truncated
\* product, of which only the bits beyond bit 31 are discarded.
C11_MulQ1616Truncated ==
    pc = "ret" => res = ExactProductQ1616(arg.a1, arg.a2).value

C11_Witness ==
    /\ pc = "ret"
    /\ arg.a1 = [high |-> 65535, low |-> 65535]
    /\ arg.a2 = [high |-> 65535, low |-> 65535]
    /\ ExactProductQ1616(arg.a1, arg.a2).over # 0
    /\ res = [high |-> 65534, low |-> 0]

(***************************************************************************)
(* Two execution contexts: main code runs one routine instruction by       *)
(* instruction, and an interrupt handler that calls a routine of the       *)
(* library may preempt it at any instruction boundary.  The handler's      *)
(* prologue and epilogue save and restore the working registers the        *)
(* compiler knows the handler uses, which includes the registers an asm    *)
(* statement lists as operands or as clobbered.  None of the asm           *)
(* statements lists accumulator A, so A is not saved.  The DO registers    *)
(* are pushed to their shadows by a nested DO ("1 DO level") and restored  *)
(* when the nested loop ends.                                              *)
(***************************************************************************)
\* Largest number of interrupts taken during one call of main code.
MaxIrq == 1

\* Word addresses of the array the interrupt handler works on.
IsrWords == 1000 .. 1001

\* Values the interrupt handler passes to the routine it calls, and values
\* main code passes.  They are small enough for accumulator A, which has 40
\* bits, to stay within 32 bits on every path, interrupted or not.
IsrVals == {1, 2, 65535}

IrqVals == {0, 1, 8192, 57344, 65535}

\* Accumulator A as interpLinear leaves it: lac, msc, mac (sac.r reads it).
interpLinear_acc(y1, y2, x) ==
    LET xs == lsr(x, 1)
    IN  mac(msc(lac(y1, 0), y1, xs), y2, xs)

\* Memory as mul_aQ15_Q16(base, val, base, len) leaves it, for an array of
\* len words at word address base.
mul_aQ15_Q16_mem(m, base, val, len) ==
    [ a \in DOMAIN m |->
        IF a >= base /\ a < base + len THEN mul_us(val, m[a]).high ELSE m[a] ]

IrqReg0 ==
    [A |-> 0, y |-> 0, x |-> 0, p |-> 0,
     w0 |-> 0, w1 |-> 0, src |-> 0, dst |-> 0, dcount |-> 0]

IrqHist0 == [iters |-> 0, reads |-> <<>>, writes |-> <<>>, irqs |-> 0]

\* Main code calls interpLinear, interpLUT_256_Q15 (table at byte address
\* 0) or mul_aQ15_Q16 (in place, at byte address 0).
InitIrq ==
    /\ res = 0
    /\ corcon = NoCorcon
    /\ reg = IrqReg0
    /\ \/ /\ pc = "il_lac"
          /\ arg \in [op : {"interpLinear"}, y1 : IrqVals,
                      y2 : IrqVals, x : {0, 32768, 65535}]
          /\ mem = [ a \in IsrWords |-> 1 ]
          /\ hist = IrqHist0
       \/ /\ pc = "lut_addr"
          /\ \E k \in {0, 128, 255}, f \in {0, 128, 255},
                l \in IrqVals, r \in IrqVals :
                /\ arg = [op |-> "interpLUT_256_Q15", yTable |-> 0, x |-> k * 256 + f]
                /\ mem = [ a \in (0 .. LutLen - 1) \cup IsrWords |->
                             IF a \in IsrWords THEN 1 ELSE LutTable(k, l, r)[a] ]
          /\ hist = IrqHist0
       \/ /\ pc = "call"
          /\ \E n \in 1 .. MaxLen, v \in IsrVals, seed \in IsrVals :
                /\ arg = [op |-> "mul_aQ15_Q16", src |-> 0, val |-> v, dst |-> 0, len |-> n]
                /\ mem = [ a \in (0 .. MemWords - 1) \cup IsrWords |->
                             IF a \in IsrWords THEN 1 ELSE MemPattern(seed)[a] ]
                /\ hist = [iters |-> 0, reads |-> <<>>, writes |-> <<>>, irqs |-> 0,
                           mem0 |-> MemPattern(seed)]

\* lac y1, #0, A
IL_lac ==
    /\ pc = "il_lac"
    /\ pc' = "il_msc"
    /\ reg' = [reg EXCEPT !.A = lac(arg.y1, 0), !.x = lsr(arg.x, 1)]
    /\ UNCHANGED <<arg, res, corcon, mem, hist>>

\* msc y1 * x, A
IL_msc ==
    /\ pc = "il_msc"
    /\ pc' = "il_mac"
    /\ reg' = [reg EXCEPT !.A = msc(reg.A, arg.y1, reg.x)]
    /\ UNCHANGED <<arg, res, corcon, mem, hist>>

\* mac y2 * x, A
IL_mac ==
    /\ pc = "il_mac"
    /\ pc' = "il_sac"
    /\ reg' = [reg EXCEPT !.A = mac(reg.A, arg.y2, reg.x)]
    /\ UNCHANGED <<arg, res, corcon, mem, hist>>

\* sac.r A, #0, y
IL_sac_r ==
    /\ pc = "il_sac"
    /\ pc' = "ret"
    /\ res' = sac_r(reg.A, 0, corcon)
    /\ UNCHANGED <<arg, corcon, mem, reg, hist>>

\* lsr x, #8, y; add y, y, y; add yTable, y, yTable; and #0xff, x
LUT_addr ==
    /\ pc = "lut_addr"
    /\ pc' = "lut_movsac"
    /\ reg' = [reg EXCEPT !.p = interpLUT_256_Q15_reads(arg.yTable, arg.x)[1],
                          !.x = and(arg.x, 255)]
    /\ UNCHANGED <<arg, res, corcon, mem, hist>>

\* movsac A, [yTable]+=2, y
LUT_movsac ==
    /\ pc = "lut_movsac"
    /\ pc' = "lut_lac"
    /\ reg' = [reg EXCEPT !.y = MemWord(mem, reg.p), !.p = add(reg.p, 2)]
    /\ UNCHANGED <<arg, res, corcon, mem, hist>>

\* lac y, #7, A
LUT_lac ==
    /\ pc = "lut_lac"
    /\ pc' = "lut_msc"
    /\ reg' = [reg EXCEPT !.A = lac(reg.y, 7)]
    /\ UNCHANGED <<arg, res, corcon, mem, hist>>

\* msc y * x, A, [yTable], y
LUT_msc ==
    /\ pc = "lut_msc"
    /\ pc' = "lut_mac"
    /\ reg' = [reg EXCEPT !.A = msc(reg.A, reg.y, reg.x), !.y = MemWord(mem, reg.p)]
    /\ UNCHANGED <<arg, res, corcon, mem, hist>>

\* mac y * x, A
LUT_mac ==
    /\ pc = "lut_mac"
    /\ pc' = "lut_sac"
    /\ reg' = [reg EXCEPT !.A = mac(reg.A, reg.y, reg.x)]
    /\ UNCHANGED <<arg, res, corcon, mem, hist>>

\* sac.r A, #-7, y
LUT_sac_r ==
    /\ pc = "lut_sac"
    /\ pc' = "ret"
    /\ res' = sac_r(reg.A, 0 - 7, corcon)
    /\ UNCHANGED <<arg, corcon, mem, reg, hist>>

\* An interrupt at an instruction boundary of main code; the handler calls
\* interpLinear and returns.  Working registers come back as they were,
\* accumulator A holds what the handler's call left in it.
Isr_interpLinear ==
    /\ pc # "ret"
    /\ hist.irqs < MaxIrq
    /\ \E y1 \in IsrVals, y2 \in IsrVals :
          reg' = [reg EXCEPT !.A = interpLinear_acc(y1, y2, 32768)]
    /\ hist' = [hist EXCEPT !.irqs = @ + 1]
    /\ UNCHANGED <<pc, arg, res, corcon, mem>>

\* An interrupt whose handler calls mul_aQ15_Q16 in place on its own array
\* and returns.  w0, w1 and the pointers come back as they were, and so do
\* the DO registers of an interrupted loop.
Isr_mul_aQ15_Q16 ==
    /\ pc # "ret"
    /\ hist.irqs < MaxIrq
    /\ \E v \in IsrVals :
          mem' = mul_aQ15_Q16_mem(mem, 1000, v, 2)
    /\ hist' = [hist EXCEPT !.irqs = @ + 1]
    /\ UNCHANGED <<pc, arg, res, corcon, reg>>

NextIrq ==
    \/ IL_lac \/ IL_msc \/ IL_mac \/ IL_sac_r
    \/ LUT_addr \/ LUT_movsac \/ LUT_lac \/ LUT_msc \/ LUT_mac \/ LUT_sac_r
    \/ Do_mul_aQ15_Q16 \/ Mul_mul_aQ15_Q16 \/ Mov_mul_aQ15_Q16
    \/ Isr_interpLinear \/ Isr_mul_aQ15_Q16

SpecIrq == InitIrq /\ [][NextIrq]_vars

\* What the call of main code returns when nothing interrupts it.
AloneResultHolds ==
    CASE arg.op = "interpLinear" ->
            res = interpLinear(arg.y1, arg.y2, arg.x, corcon)
      [] arg.op = "interpLUT_256_Q15" ->
            res = interpLUT_256_Q15(mem, arg.yTable, arg.x, corcon)
      [] arg.op = "mul_aQ15_Q16" ->
            \A i \in 0 .. arg.len - 1 :
                mem[i] = mul_Q15_Q16(hist.mem0[i], arg.val)

\* C12: with main code and an interrupt handler both calling the library,
\* and no locking, every invocation returns the result it returns when run
\* alone; in particular interpLinear, interpLUT_256_Q15 and mul_aQ15_Q16.
C12_PreemptionSafe == pc = "ret" => AloneResultHolds

(***************************************************************************)
(* fp_lib_typeconv.h : convert_Q15_Q16_Naive called directly               *)
(***************************************************************************)
InitConvNaive ==
    /\ pc = "call"
    /\ arg \in [a : 0 .. Word - 1]
    /\ res = 0
    /\ corcon = NoCorcon
    /\ mem = NoMem
    /\ reg = NoReg
    /\ hist = NoHist

Call_convert_Q15_Q16_Naive ==
    /\ pc = "call"
    /\ pc' = "ret"
    /\ res' = convert_Q15_Q16_Naive(arg.a)
    /\ UNCHANGED <<arg, corcon, mem, reg, hist>>

NextConvNaive == Call_convert_Q15_Q16_Naive

SpecConvNaive == InitConvNaive /\ [][NextConvNaive]_vars

\* C13 as stated: for every non-negative Q0.15 input x (0..0x7FFF),
\* convert_Q15_Q16_Naive(x) is the 16-bit value x << 1 (= 2*x).
C13_NaiveIsShift ==
    (pc = "ret" /\ arg.a < Half) => res = 2 * arg.a

\* C13, amended: for every non-negative Q0.15 input x (0..0x7FFF),
\* convert_Q15_Q16_Naive(x) is 2*x plus bit 14 of x: 2*x for x below 0x4000
\* and 2*x + 1 from 0x4000 on, so that 0x7FFF maps to 0xFFFF.
C13_NaiveIsShiftPlusMsb ==
    (pc = "ret" /\ arg.a < Half) =>
        res = 2 * arg.a + (IF arg.a >= 16384 THEN 1 ELSE 0)

C13_Witness == pc = "ret" /\ arg.a = 32767 /\ res = 65535

(***************************************************************************)
(* fp_lib_typeconv.h : convert_Q15_Q16 followed by convert_Q16_Q15         *)
(***************************************************************************)
InitRoundTrip ==
    /\ pc = "call"
    /\ arg \in [a : 0 .. Word - 1]
    /\ res = 0
    /\ corcon = NoCorcon
    /\ mem = NoMem
    /\ reg = NoReg
    /\ hist = NoHist

\* The Q0.16 intermediate is kept in reg.w0.
RoundTrip_convert_Q15_Q16 ==
    /\ pc = "call"
    /\ pc' = "q16"
    /\ reg' = [reg EXCEPT !.w0 = convert_Q15_Q16(arg.a)]
    /\ UNCHANGED <<arg, res, corcon, mem, hist>>

RoundTrip_convert_Q16_Q15 ==
    /\ pc = "q16"
    /\ pc' = "ret"
    /\ res' = convert_Q16_Q15(reg.w0)
    /\ UNCHANGED <<arg, corcon, mem, reg, hist>>

NextRoundTrip == RoundTrip_convert_Q15_Q16 \/ RoundTrip_convert_Q16_Q15

SpecRoundTrip == InitRoundTrip /\ [][NextRoundTrip]_vars

\* C14: for every x in [0, 0x7FFF], convert_Q16_Q15(convert_Q15_Q16(x))
\* recovers x within 1 LSB: |result - x| <= 1.
C14_RoundTrip ==
    (pc = "ret" /\ arg.a < Half) => Abs(S16(res) - arg.a) <= 1

C14_Witness ==
    pc = "ret" /\ arg.a = 32767 /\ reg.w0 = 65535 /\ res = 32767

(***************************************************************************)
(* fp_lib_trig.h : the table of sin_Q15, read segment by segment           *)
(***************************************************************************)
Intercept_slope(i) == S16(TableWord(4 * i))

\* dy[i]: the first word of pair i, the word mul.us reads at [yTable++].
Slope(i) == S16(TableWord(4 * i))

\* y0[i]: the second word of pair i, the word add reads at [yTable].
Intercept(i) == S16(TableWord(4 * i + 2))

\* The segment a call selects: the 8 most-significant bits of x.
Segment(x) == lsr(x, 8)

\* Segments holding the largest and the smallest intercept.
MaxSegment ==
    CHOOSE i \in 0 .. 255 : \A j \in 0 .. 255 : Intercept(j) <= Intercept(i)

MinSegment ==
    CHOOSE i \in 0 .. 255 : \A j \in 0 .. 255 : Intercept(j) >= Intercept(i)

\* C15 as stated: the intercept entries, in segment order 0..255, are
\* non-decreasing up to the maximum and non-increasing from there on.
\* Stated for the segment a call of sin_Q15 reads and its successor.
C15_InterceptUnimodal ==
    (pc = "ret" /\ Segment(arg.x) < 255) =>
        LET i == Segment(arg.x)
        IN  IF i < MaxSegment
            THEN Intercept(i) <= Intercept(i + 1)
            ELSE Intercept(i) >= Intercept(i + 1)

\* C15, amended: the intercept entries, in segment order 0..255, are
\* non-decreasing up to the maximum (32767 at segment 64), non-increasing
\* from there down to the minimum (-32767 at segment 192) and non-decreasing
\* from the minimum to the last segment: one sine period starting at phase 0.
\* The intercept of segment i is what sin_Q15 returns at offset 0 of it.
C15_InterceptOnePeriod ==
    (pc = "ret" /\ Segment(arg.x) < 255) =>
        LET i == Segment(arg.x)
        IN  /\ (arg.x % 256 = 0 => res = U16(Intercept(i)))
            /\ MaxSegment = 64 /\ Intercept(MaxSegment) = 32767
            /\ MinSegment = 192 /\ Intercept(MinSegment) = 0 - 32767
            /\ IF i < MaxSegment THEN Intercept(i) <= Intercept(i + 1)
               ELSE IF i < MinSegment THEN Intercept(i) >= Intercept(i + 1)
               ELSE Intercept(i) <= Intercept(i + 1)

C15_Witness ==
    /\ pc = "ret" /\ arg.x = 192 * 256
    /\ res = U16(Intercept(192))
    /\ Intercept(193) > Intercept(192)

\* C16: for every 16-bit x the value sin_Q15 computes,
\* intercept[i] + floor(slope[i] * (x & 0xFF) / 256) with i = x >> 8, lies in
\* -32767..32767: the 16-bit addition does not wrap and the result is never
\* 0x8000.
C16_SinInRange ==
    pc = "ret" =>
        LET i == Segment(arg.x)
            f == arg.x % 256
            v == Intercept(i) + ((Slope(i) * f) \div 256)
        IN  /\ v >= 0 - 32767 /\ v <= 32767
            /\ res = U16(v)
            /\ res # Half

C16_Witness == pc = "ret" /\ arg.x = 49152 /\ res = 32769

\* C17: for every 16-bit x, interpLUT_256_Q15(yTable, x) reads exactly the
\* two entries yTable[x >> 8] and yTable[(x >> 8) + 1], the right-hand one
\* also when the low byte of x is 0; both indices lie in 0..256, inside a
\* table of exactly 257 entries, and no table entry is written.
C17_LutReadsInBounds ==
    pc = "ret" =>
        LET k == arg.x \div 256
        IN  /\ hist.reads = <<k, k + 1>>
            /\ \A n \in 1 .. 2 :
                  /\ hist.reads[n] >= 0 /\ hist.reads[n] <= 256
                  /\ hist.reads[n] \in DOMAIN mem
            /\ DOMAIN mem = 0 .. LutLen - 1
            /\ hist.writes = <<>>
            /\ mem = LutTable(k, mem[k], mem[k + 1])

C17_Witness ==
    /\ pc = "ret" /\ arg.x = 65280
    /\ hist.reads = <<255, 256>>
    /\ hist.writes = <<>>

=============================================================================
